---- MODULE Spec2Model ----
(***************************************************************************)
(* Model of scripts/build.js: the build script of the mod.  The script     *)
(* validates its flags and the manifest, stages the source tree in         *)
(* temp_build, packs temp_build/Data into size-bounded pak archives with   *)
(* the external zip tool, removes the non-production directories and       *)
(* bundles the staging directory with the external 7z tool.                *)
(*                                                                         *)
(* Strings are sequences of tokens: a path "root/temp_build/Data/f1.xml"   *)
(* is <<"root", "/", "temp_build", "/", "Data", "/", "f1", ".xml">>.       *)
(* Sizes are counted in GiB, so that maxSizeBytes (2 GiB) is 2.            *)
(***************************************************************************)
EXTENDS Integers, Sequences, FiniteSets, TLC

VARIABLES
  pc,               \* the statement of the script that runs next
  args,             \* build.js:17, each argument split at its "=" signs
  rootDirectory,    \* build.js:55, the directory above scripts/
  environment,      \* build.js:18
  version,          \* build.js:22
  isHelpRequested,  \* build.js:26
  manifestExists,   \* whether src/mod.manifest exists
  manifestContent,  \* the text between each pair of tags of the manifest
  stagingExists,    \* whether temp_build exists
  stagingData,      \* the listing of temp_build/Data as it was copied
  paks,             \* the archives below temp_build/Data, copied from
                    \* src/Data or written by zip: path -> member files
  fileList,         \* compressToPak: fileList
  fileIdx,          \* compressToPak: fileIdx
  pakPartNo,        \* compressToPak: pakPartNo
  pakPath,          \* compressToPak: pakPath of the current iteration
  filesToPack,      \* compressToPak: filesToPack of the current iteration
  log,              \* the file-system and tool calls made so far, in order
  exitCode,         \* the exit code of the process, once pc = "exited"
  error             \* what console.error printed or what was thrown

vars == <<pc, args, rootDirectory, environment, version, isHelpRequested, manifestExists,
          manifestContent, stagingExists, stagingData, paks, fileList,
          fileIdx, pakPartNo, pakPath, filesToPack, log, exitCode, error>>

----------------------------------------------------------------------------
(* Bounds and program constants *)

\* The most entries the listing of src/Data has.
MaxItems == 3

\* build.js:120, in GiB.
maxSizeBytes == 2

\* The value of an optional chain that found nothing, or of an empty string.
Undefined == <<>>

validEnvironments == {"prod", "dev"}

validVersions == {"main", "lorem-ipsum"}

----------------------------------------------------------------------------
(* Strings and paths *)

\* The spellings toLowerCase() folds to ".pak": p and a in either case, and
\* k, K or the Kelvin sign U+212A, which is written \u212A here.
PakSpellings ==
  {".pak", ".PAK", ".Pak", ".pAk", ".paK", ".PAk", ".PaK", ".pAK",
   ".pa\\u212A", ".Pa\\u212A", ".pA\\u212A", ".PA\\u212A"}

\* toLowerCase() of one token; the other tokens of the model are in lower
\* case already.
Lower(tok) ==
  CASE tok \in PakSpellings -> ".pak"
    [] tok = "Data" -> "data"
    [] tok = "Scripts" -> "scripts"
    [] tok = "Libs" -> "libs"
    [] tok = "Music" -> "music"
    [] tok = "NoCombatMusic" -> "nocombatmusic"
    [] OTHER -> tok

\* A comparison that keeps the case: what build.js:105 would be without
\* toLowerCase().
toLowerCaseIdentity(path) == path

toLowerCase(path) == [i \in 1..Len(path) |-> Lower(path[i])]

endsWith(path, tok) == Len(path) > 0 /\ path[Len(path)] = tok

join(dir, item) == dir \o <<"/">> \o item

\* path.relative(from, to) for a path `to` below the directory `from`.
relative(from, to) == SubSeq(to, Len(from) + 2, Len(to))

\* String.prototype.replace with a string pattern: the first occurrence only.
replace(str, pattern, replacement) ==
  IF \E i \in 1..Len(str) : str[i] = pattern
    THEN LET i == CHOOSE j \in 1..Len(str) :
                    str[j] = pattern /\ \A k \in 1..(j - 1) : str[k] # pattern
         IN SubSeq(str, 1, i - 1) \o replacement \o SubSeq(str, i + 1, Len(str))
    ELSE str

\* The template literal `-part${n}.pak`.
PartSuffix(n) == <<"-part" \o ToString(n), ".pak">>

\* The directory of a path: what is before its last "/".
dirname(path) ==
  SubSeq(path, 1, (CHOOSE i \in 1..Len(path) :
                     path[i] = "/" /\ \A k \in (i + 1)..Len(path) : path[k] # "/") - 1)

sourceDirectory == join(rootDirectory, <<"src">>)

temporaryBuildDirectory == join(rootDirectory, <<"temp_build">>)

modIdentifier == manifestContent.modid

modVersion == manifestContent.version

modName == manifestContent.name

dataDirectory == join(temporaryBuildDirectory, <<"Data">>)

modPakFile == join(dataDirectory, modIdentifier \o <<".pak">>)

scriptsDirectory == join(dataDirectory, <<"Scripts">>)

libsDirectory == join(dataDirectory, <<"Libs">>)

finalZipPath ==
  join(rootDirectory, modName \o <<"_", version, "_">> \o modVersion \o <<".zip">>)

----------------------------------------------------------------------------
(* The inputs: the flags, the manifest and the source tree *)

\* The checkout directories: one has ".pak" in its name.
RootDirectories == {<<"root">>, <<"x_root", ".pak", "dir">>}

\* argv.slice(2): each argument is the sequence of the pieces arg.split("=")
\* gives, so "--env=prod=x" is <<"--env", "prod", "x">> and "--env=" is
\* <<"--env", "">>.
ArgVectors ==
  { <<>>,
    << <<"--help">> >>,
    << <<"--env", "prod">>, <<"--version", "lorem-ipsum">> >>,
    << <<"--env", "">>, <<"--version", "beta">> >>,
    << <<"--env", "staging">> >>,
    << <<"--version", "beta">> >>,
    << <<"--env", "staging">>, <<"--env", "prod">> >>,
    << <<"--env", "staging">>, <<"--help">> >>,
    << <<"--help", "1">>, <<"--env", "staging">> >>,
    << <<"--env">>, <<"--version", "main", "2">>, <<"--env", "qa">> >>,
    << <<"--env", "prod", "x">> >> }

\* process.env.MODE and process.env.VERSION: "" stands for an unset variable.
EnvironmentVariables == {"", "qa"}

\* arg.startsWith(flag + "=")
StartsWithFlag(arg, flag) == Len(arg) >= 2 /\ arg[1] = flag

\* args.find(arg => arg.startsWith(flag + "="))?.split("=")[1]: the text
\* between the first and the second "=" of the first such argument; "" when
\* there is none (undefined).
FlagValue(argv, flag) ==
  IF \E i \in 1..Len(argv) : StartsWithFlag(argv[i], flag)
    THEN argv[CHOOSE i \in 1..Len(argv) :
                /\ StartsWithFlag(argv[i], flag)
                /\ \A k \in 1..(i - 1) : ~StartsWithFlag(argv[k], flag)][2]
    ELSE ""

\* a || b || c on strings: the first that is not empty.
OrElse(a, b, c) == IF a # "" THEN a ELSE IF b # "" THEN b ELSE c

ParseEnvironment(argv, mode) == OrElse(FlagValue(argv, "--env"), mode, "dev")

ParseVersion(argv, ver) == OrElse(FlagValue(argv, "--version"), ver, "main")

\* args.includes("--help")
ParseHelp(argv) == \E i \in 1..Len(argv) : argv[i] = <<"--help">>

\* What the three regular expressions of build.js:66-68 capture in the
\* manifest; Undefined when the tag pair is not there.
ManifestContents ==
  [modid : {Undefined, <<"nomusic">>, <<"no", ".pak", "music">>},
   version : {Undefined, <<"1.0">>},
   name : {Undefined, <<"NoCombatMusic">>}]

NoManifest == [modid |-> Undefined, version |-> Undefined, name |-> Undefined]

FileNamed(fileName, size) ==
  [name |-> fileName, isDirectory |-> FALSE, size |-> size, items |-> <<>>]

FileEntry(stem, ext, size) == FileNamed(<<stem, ext>>, size)

DirectoryEntry(dirName, items) ==
  [name |-> <<dirName>>, isDirectory |-> TRUE, size |-> 0, items |-> items]

\* File sizes in GiB, up to one more than the limit.
FileSizes == 1..(maxSizeBytes + 1)

\* What a subdirectory of Data holds.
DirectoryContents ==
  { <<>>, <<FileEntry("g1", ".lua", 1)>>, <<FileEntry("g1", ".PAK", 1)>>,
    <<FileEntry("g1", ".pa\\u212A", 1)>> }

\* The entries the i-th place of the listing of Data can hold: a file, a
\* pak in mixed case, a pak with the name of the first part (left by an
\* earlier build), a directory.
Entries(i) ==
  {FileEntry("f" \o ToString(i), ".xml", s) : s \in FileSizes}
    \cup {FileEntry("f" \o ToString(i), ".Pak", 1)}
    \cup {FileNamed(modIdentifier \o <<".pak">>, 1)}
    \cup {DirectoryEntry(d, c) : d \in {"Scripts", "Libs"}, c \in DirectoryContents}

Names(items) == {items[i].name : i \in 1..Len(items)}

RECURSIVE TreesOfLen(_)
TreesOfLen(n) ==
  IF n = 0 THEN {<<>>}
  ELSE UNION {{Append(t, e) : e \in {x \in Entries(n) : x.name \notin Names(t)}} :
                t \in TreesOfLen(n - 1)}

\* The listings src/Data can have: the names of a directory are distinct.
SourceTrees == UNION {TreesOfLen(n) : n \in 0..MaxItems}

----------------------------------------------------------------------------
(* compressToPak: the enumeration and the filling of one part *)

\* The check of build.js:105 on a full path.
IsPak(fullPath) == endsWith(toLowerCase(fullPath), ".pak")

\* buildFileList(dir), dir having the listing items: depth first, in the
\* order of the listing, without the files that end in .pak.
RECURSIVE buildFileList(_, _)
buildFileList(dir, items) ==
  IF items = <<>> THEN <<>>
  ELSE LET item == Head(items)
           fullPath == join(dir, item.name)
       IN (IF item.isDirectory THEN buildFileList(fullPath, item.items)
           ELSE IF ~IsPak(fullPath) THEN <<fullPath>>
           ELSE <<>>)
          \o buildFileList(dir, Tail(items))

\* Every file below dir with its size, as statSync sees it.
RECURSIVE StatTable(_, _)
StatTable(dir, items) ==
  IF items = <<>> THEN {}
  ELSE LET item == Head(items)
           fullPath == join(dir, item.name)
       IN (IF item.isDirectory THEN StatTable(fullPath, item.items)
           ELSE {[path |-> fullPath, size |-> item.size]})
          \cup StatTable(dir, Tail(items))

\* statSync(file).size for a file of the staging Data directory.
statSize(file) ==
  (CHOOSE f \in StatTable(dataDirectory, stagingData) : f.path = file).size

\* The limit tested on the part alone, before the file is added.
ExceedsLimitAfter(pakSize, fileSize) == pakSize > maxSizeBytes

\* The limit tested with >=: a part may not reach the limit exactly.
ExceedsLimitInclusive(pakSize, fileSize) == pakSize + fileSize >= maxSizeBytes

\* The test of build.js:137.
ExceedsLimit(pakSize, fileSize) == pakSize + fileSize > maxSizeBytes

\* The for loop of build.js:134-142 from index i (0-based) with the part
\* built so far: the part it leaves and the fileIdx it leaves.
RECURSIVE FillLoop(_, _, _)
FillLoop(i, pakSize, files) ==
  IF i >= Len(fileList) THEN [fileIdx |-> i, pakSize |-> pakSize, filesToPack |-> files]
  ELSE LET file == fileList[i + 1]
           fileSize == statSize(file)
       IN IF ExceedsLimit(pakSize, fileSize)
            THEN [fileIdx |-> i, pakSize |-> pakSize, filesToPack |-> files]
            ELSE FillLoop(i + 1, pakSize + fileSize,
                          Append(files, relative(dataDirectory, file)))

\* pakPath of build.js:126-129.
PakPathOf(pakOutputPath, partNo) ==
  IF partNo > 0 THEN replace(pakOutputPath, ".pak", PartSuffix(partNo))
  ELSE pakOutputPath

----------------------------------------------------------------------------
(* The state machine *)

inputVars == <<args, rootDirectory, environment, version, isHelpRequested, manifestExists, manifestContent>>

diskVars == <<stagingExists, stagingData, paks>>

packVars == <<fileList, fileIdx, pakPartNo, pakPath, filesToPack>>

\* One call that changes the file system or runs a tool.  arg holds the
\* paths the call is given besides its target; result is what a tool did.
Event(op, target, arg, result) ==
  [op |-> op, target |-> target, arg |-> arg, result |-> result]

\* What a temp_build left by an earlier build holds.
StaleData == <<FileEntry("old", ".xml", 1)>>

NoPaks == [p \in {} |-> <<>>]

\* The members of a pak that an earlier build left in the source tree.
OldMembers == << <<"old", ".xml">> >>

\* The paks below Data once the listing items is copied there.
CopiedPaks(items) ==
  [p \in {f.path : f \in {g \in StatTable(dataDirectory, items) : IsPak(g.path)}}
     |-> OldMembers]

\* process.exit(code), or an uncaught exception (code 1).
Exit(code, message) ==
  /\ pc' = "exited"
  /\ exitCode' = code
  /\ error' = message

Goto(label) ==
  /\ pc' = label
  /\ UNCHANGED <<exitCode, error>>

Init ==
  /\ pc = "checkHelp"
  /\ args \in ArgVectors
  /\ rootDirectory \in RootDirectories
  /\ \E mode \in EnvironmentVariables, ver \in EnvironmentVariables :
       /\ environment = ParseEnvironment(args, mode)
       /\ version = ParseVersion(args, ver)
  /\ isHelpRequested = ParseHelp(args)
  /\ manifestExists \in BOOLEAN
  /\ manifestContent \in (IF manifestExists THEN ManifestContents ELSE {NoManifest})
  /\ stagingExists \in BOOLEAN
  /\ stagingData = (IF stagingExists THEN StaleData ELSE <<>>)
  /\ paks = NoPaks
  /\ fileList = <<>>
  /\ fileIdx = 0
  /\ pakPartNo = 0
  /\ pakPath = <<>>
  /\ filesToPack = <<>>
  /\ log = <<>>
  /\ exitCode = 0
  /\ error = ""

\* build.js:31-39
CheckHelp ==
  /\ pc = "checkHelp"
  /\ IF isHelpRequested THEN Exit(0, "") ELSE Goto("checkEnvironment")
  /\ UNCHANGED <<inputVars, diskVars, packVars, log>>

\* build.js:41-46
CheckEnvironment ==
  /\ pc = "checkEnvironment"
  /\ IF environment \notin validEnvironments
       THEN Exit(1, "Invalid --env value")
       ELSE Goto("checkVersion")
  /\ UNCHANGED <<inputVars, diskVars, packVars, log>>

\* build.js:48-53
CheckVersion ==
  /\ pc = "checkVersion"
  /\ IF version \notin validVersions
       THEN Exit(1, "Invalid --version value")
       ELSE Goto("checkManifest")
  /\ UNCHANGED <<inputVars, diskVars, packVars, log>>

\* build.js:60-63
CheckManifest ==
  /\ pc = "checkManifest"
  /\ IF ~manifestExists
       THEN Exit(1, "mod.manifest not found in src")
       ELSE Goto("readManifest")
  /\ UNCHANGED <<inputVars, diskVars, packVars, log>>

\* The test of build.js:70.
MissingFields ==
  modIdentifier = Undefined \/ modVersion = Undefined \/ modName = Undefined

\* build.js:65-73
ReadManifest ==
  /\ pc = "readManifest"
  /\ IF MissingFields
       THEN Exit(1, "Missing required fields in mod.manifest")
       ELSE Goto("build")
  /\ UNCHANGED <<inputVars, diskVars, packVars, log>>

\* build.js:197-209: both branches run the same four calls.
Build ==
  /\ pc = "build"
  /\ IF environment = "prod" THEN Goto("cleanBuildDirectory")
     ELSE IF environment = "dev" THEN Goto("cleanBuildDirectory")
     ELSE Exit(0, "")
  /\ UNCHANGED <<inputVars, diskVars, packVars, log>>

\* build.js:75-78
cleanBuildDirectory ==
  /\ pc = "cleanBuildDirectory"
  /\ stagingExists' = TRUE
  /\ stagingData' = <<>>
  /\ paks' = NoPaks
  /\ log' = log \o <<Event("rmSync", temporaryBuildDirectory, <<>>, ""),
                     Event("mkdirSync", temporaryBuildDirectory, <<>>, "")>>
  /\ Goto("prepareBuild")
  /\ UNCHANGED <<inputVars, packVars>>

\* build.js:80-82: the listing of src/Data is read here (src/Data is there;
\* a source tree without it makes readdirSync throw at build.js:99).
prepareBuild ==
  /\ pc = "prepareBuild"
  /\ \E tree \in SourceTrees :
       /\ stagingData' = tree
       /\ paks' = CopiedPaks(tree)
  /\ log' = Append(log, Event("cpSync", temporaryBuildDirectory, <<sourceDirectory>>, ""))
  /\ Goto("compressToPak")
  /\ UNCHANGED <<inputVars, stagingExists, packVars>>

\* The empty check left out.
NeverNoFiles(list) == FALSE

\* The test of build.js:114.
NoFilesFound(list) == Len(list) = 0

\* The test of the while loop, build.js:125: what runs next.
WhileLoop(idx, totalFiles) ==
  IF idx < totalFiles THEN "fillPart" ELSE "removeNonProductionFiles"

\* compressToPak, build.js:96-123: the enumeration and the empty check.
EnumerateFiles ==
  /\ pc = "compressToPak"
  /\ LET list == buildFileList(dataDirectory, stagingData)
     IN /\ fileList' = list
        /\ IF NoFilesFound(list)
             THEN Exit(1, "No files found to pack")
             ELSE Goto(WhileLoop(0, Len(list)))
  /\ fileIdx' = 0
  /\ pakPartNo' = 0
  /\ UNCHANGED <<inputVars, diskVars, pakPath, filesToPack, log>>

\* compressToPak, build.js:126-142: the path of the part and its files.
FillPart ==
  /\ pc = "fillPart"
  /\ pakPath' = PakPathOf(modPakFile, pakPartNo)
  /\ LET filled == FillLoop(fileIdx, 0, <<>>)
     IN /\ filesToPack' = filled.filesToPack
        /\ fileIdx' = filled.fileIdx
  /\ Goto("execZip")
  /\ UNCHANGED <<inputVars, diskVars, fileList, pakPartNo, log>>

\* What zip leaves at path: an archive that is there already is added to,
\* and a member of the same name is replaced where it is.
Zipped(fs, path, files) ==
  LET old == IF path \in DOMAIN fs THEN fs[path] ELSE <<>>
      IsNew(f) == \A j \in 1..Len(old) : old[j] # f
  IN [p \in DOMAIN fs \cup {path} |->
        IF p = path THEN old \o SelectSeq(files, IsNew) ELSE fs[p]]

\* What an invocation of zip can do: write the archive, return without
\* writing it, or fail (execSync throws).  Without input files zip has
\* nothing to do and fails.
ZipResults(files) ==
  IF files = <<>> THEN {"failed"} ELSE {"created", "no output", "failed"}

\* compressToPak, build.js:145-147
ExecZip ==
  /\ pc = "execZip"
  /\ \E result \in ZipResults(filesToPack) :
       /\ log' = Append(log, Event("zip", pakPath, filesToPack, result))
       /\ paks' = (IF result = "created" THEN Zipped(paks, pakPath, filesToPack) ELSE paks)
       /\ IF result = "failed" THEN Exit(1, "Command failed: zip") ELSE Goto("checkPak")
  /\ UNCHANGED <<inputVars, stagingExists, stagingData, packVars>>

\* The existence check left out.
AlwaysExists(fs, path) == TRUE

\* existsSync(path) for a pak path.
existsSync(fs, path) == path \in DOMAIN fs

\* compressToPak, build.js:149-152
CheckPak ==
  /\ pc = "checkPak"
  /\ IF ~existsSync(paks, pakPath)
       THEN Exit(1, "Failed to create pak")
       ELSE Goto("nextPart")
  /\ UNCHANGED <<inputVars, diskVars, packVars, log>>

\* Whether renameSync(from, to) can be made: from is there and so is the
\* directory of to (of the directories a pak path can name, Data is the one
\* that exists).
CanRename(fs, from, to) == existsSync(fs, from) /\ dirname(to) = dataDirectory

\* renameSync(from, to) on the archives.
renameSync(fs, from, to) ==
  [p \in (DOMAIN fs \ {from}) \cup {to} |-> IF p = to THEN fs[from] ELSE fs[p]]

\* compressToPak, build.js:154-162: the rename of the first part, the next
\* part number and the test of the while loop.
NextPart ==
  /\ pc = "nextPart"
  /\ IF fileIdx < Len(fileList)
       THEN IF pakPartNo = 0
                 THEN LET newPath == replace(modPakFile, ".pak", PartSuffix(0))
                      IN IF CanRename(paks, pakPath, newPath)
                           THEN /\ paks' = renameSync(paks, pakPath, newPath)
                                /\ log' = Append(log, Event("renameSync", pakPath, <<newPath>>, ""))
                                /\ pakPartNo' = pakPartNo + 1
                                /\ Goto(WhileLoop(fileIdx, Len(fileList)))
                           ELSE /\ Exit(1, "ENOENT: rename")
                                /\ UNCHANGED <<paks, log, pakPartNo>>
                 ELSE /\ pakPartNo' = pakPartNo + 1
                      /\ Goto(WhileLoop(fileIdx, Len(fileList)))
                      /\ UNCHANGED <<paks, log>>
       ELSE /\ Goto(WhileLoop(fileIdx, Len(fileList)))
            /\ UNCHANGED <<paks, log, pakPartNo>>
  /\ UNCHANGED <<inputVars, stagingExists, stagingData, fileList, fileIdx, pakPath, filesToPack>>

\* Whether the listing of Data has an entry of this name.
HasEntry(items, entryName) == \E i \in 1..Len(items) : items[i].name = <<entryName>>

RECURSIVE WithoutEntry(_, _)
WithoutEntry(items, entryName) ==
  IF items = <<>> THEN <<>>
  ELSE (IF Head(items).name = <<entryName>> THEN <<>> ELSE <<Head(items)>>)
         \o WithoutEntry(Tail(items), entryName)

\* The removal of Data/Scripts alone.
RemoveScriptsOnly(items) == WithoutEntry(items, "Scripts")

\* The listing of Data that removeNonProductionFiles leaves.
RemoveNonProduction(items) == WithoutEntry(WithoutEntry(items, "Scripts"), "Libs")

\* Whether path is below the directory dir.
Below(dir, path) ==
  Len(path) > Len(dir) + 1 /\ SubSeq(path, 1, Len(dir) + 1) = dir \o <<"/">>

\* The archives that are left when the directories dirs are removed.
WithoutPaksBelow(fs, dirs) ==
  [p \in {q \in DOMAIN fs : \A d \in dirs : ~Below(d, q)} |-> fs[p]]

\* build.js:84-92, called at build.js:169 once compressToPak has returned.
removeNonProductionFiles ==
  /\ pc = "removeNonProductionFiles"
  /\ stagingData' = RemoveNonProduction(stagingData)
  /\ log' = log
       \o (IF HasEntry(stagingData, "Scripts")
             THEN <<Event("rmSync", scriptsDirectory, <<>>, "")>> ELSE <<>>)
       \o (IF HasEntry(stagingData, "Libs")
             THEN <<Event("rmSync", libsDirectory, <<>>, "")>> ELSE <<>>)
  /\ paks' = WithoutPaksBelow(paks, {scriptsDirectory, libsDirectory})
  /\ Goto("packMod")
  /\ UNCHANGED <<inputVars, stagingExists, packVars>>

\* packMod, build.js:173-177: a zip of the same name left by an earlier
\* build is removed.
packMod ==
  /\ pc = "packMod"
  /\ \E stale \in BOOLEAN :
       log' = IF stale THEN Append(log, Event("rmSync", finalZipPath, <<>>, "")) ELSE log
  /\ Goto("sevenZip")
  /\ UNCHANGED <<inputVars, diskVars, packVars>>

\* packMod, build.js:179-188: the 7z tool writes the zip, or fails.
ExecSevenZip ==
  /\ pc = "sevenZip"
  /\ \E result \in {"created", "failed"} :
       /\ log' = Append(log, Event("7z", finalZipPath, <<temporaryBuildDirectory>>, result))
       /\ IF result = "failed" THEN Exit(1, "Command failed: 7zzs") ELSE Goto("removeStaging")
  /\ UNCHANGED <<inputVars, diskVars, packVars>>

\* packMod, build.js:190-194, and the end of the script.
RemoveStaging ==
  /\ pc = "removeStaging"
  /\ stagingExists' = FALSE
  /\ stagingData' = <<>>
  /\ paks' = NoPaks
  /\ log' = Append(log, Event("rmSync", temporaryBuildDirectory, <<>>, ""))
  /\ Exit(0, "")
  /\ UNCHANGED <<inputVars, packVars>>

Next ==
  \/ CheckHelp
  \/ CheckEnvironment
  \/ CheckVersion
  \/ CheckManifest
  \/ ReadManifest
  \/ Build
  \/ cleanBuildDirectory
  \/ prepareBuild
  \/ EnumerateFiles
  \/ FillPart
  \/ ExecZip
  \/ CheckPak
  \/ NextPart
  \/ removeNonProductionFiles
  \/ packMod
  \/ ExecSevenZip
  \/ RemoveStaging

Spec == Init /\ [][Next]_vars

----------------------------------------------------------------------------
(* What the properties speak of *)

IsZipEvent(e) == e.op = "zip"

\* The invocations of the zip tool so far, in order.
ZipEvents == SelectSeq(log, IsZipEvent)

\* The parts: the file list each invocation of the zip tool was given.
Parts == [k \in 1..Len(ZipEvents) |-> ZipEvents[k].arg]

\* The enumerated files, relative to the Data directory.
RelFileList == [i \in 1..Len(fileList) |-> relative(dataDirectory, fileList[i])]

RECURSIVE Concat(_)
Concat(seqs) == IF seqs = <<>> THEN <<>> ELSE Head(seqs) \o Concat(Tail(seqs))

SizeOf(relPath) == statSize(join(dataDirectory, relPath))

RECURSIVE PartSize(_)
PartSize(files) == IF files = <<>> THEN 0 ELSE SizeOf(Head(files)) + PartSize(Tail(files))

\* The number of files in the parts before part k.
PartStart(k) == Len(Concat(SubSeq(Parts, 1, k - 1)))

PackerErrors == {"Command failed: zip", "Failed to create pak", "ENOENT: rename"}

\* compressToPak has enumerated the files and the staging tree is as it
\* was enumerated: inside the loop, right after it, or exited from it.
InPacker ==
  \/ pc \in {"fillPart", "execZip", "checkPak", "nextPart", "removeNonProductionFiles"}
  \/ pc = "exited" /\ error \in PackerErrors

\* compressToPak has returned.
PackerCompleted == pc = "removeNonProductionFiles"

\* compressToPak has returned or has ended the process.
PackerStopped == PackerCompleted \/ (pc = "exited" /\ error \in PackerErrors)

HasEvent(op, target) == \E i \in 1..Len(log) : log[i].op = op /\ log[i].target = target

ToolEvents == {i \in 1..Len(log) : log[i].op \in {"zip", "7z"}}

FileSizeSeq == [i \in 1..Len(fileList) |-> statSize(fileList[i])]

----------------------------------------------------------------------------
(* C1 *)

\* C1: once the packer has stopped, and neither the zip tool failed on a
\* part it was given files for nor the rename of the first part failed, the
\* parts in order of their index concatenate to the enumerated file list:
\* each file in exactly one part, in traversal order.
C1_PartsPartitionFileList ==
  (PackerStopped
     /\ error # "ENOENT: rename"
     /\ ~\E k \in 1..Len(ZipEvents) :
           ZipEvents[k].result # "created" /\ ZipEvents[k].arg # <<>>)
  => Concat(Parts) = RelFileList

(* C2 *)

\* C2: every part the zip tool is invoked for has a total input size of at
\* most maxSizeBytes, unless it is exactly one file larger than maxSizeBytes.
C2_PartSizeWithinLimit ==
  InPacker =>
    \A k \in 1..Len(Parts) :
      \/ PartSize(Parts[k]) <= maxSizeBytes
      \/ Len(Parts[k]) = 1 /\ PartSize(Parts[k]) > maxSizeBytes

\* A part of two files that reaches the limit exactly has been packed, and a
\* later part as well.
C2_Witness ==
  /\ InPacker
  /\ Len(Parts) >= 2
  /\ Len(Parts[1]) = 2
  /\ PartSize(Parts[1]) = maxSizeBytes

(* C3 *)

\* C3: a part that starts at a file larger than maxSizeBytes is that file
\* alone: the file is emitted as the sole member of its own part.
C3_OversizedFileFormsOwnPart ==
  InPacker =>
    \A k \in 1..Len(Parts) :
      LET start == PartStart(k)
      IN (start < Len(fileList) /\ statSize(fileList[start + 1]) > maxSizeBytes)
           => Parts[k] = <<RelFileList[start + 1]>>

(* C4 *)

\* The output path with the suffix -part{k} before its extension.
SuffixedPath(k) == SubSeq(modPakFile, 1, Len(modPakFile) - 1) \o PartSuffix(k)

\* The archive at path holds every file of files.
Holds(path, files) ==
  /\ path \in DOMAIN paks
  /\ \A i \in 1..Len(files) : \E j \in 1..Len(paks[path]) : paks[path][j] = files[i]

\* The paths of the archives this run of the packer has written: the paks
\* but those copied from the source tree under another name than the output
\* path.
WrittenPaks == DOMAIN paks \ (DOMAIN CopiedPaks(stagingData) \ {modPakFile})

\* Every invocation of the zip tool so far has written its archive.
AllPartsWritten == \A k \in 1..Len(ZipEvents) : ZipEvents[k].result = "created"

\* The naming of the parts for the mod identifiers in ids, when the packer
\* has returned and the zip tool has written every part: N = 1 leaves the
\* one archive at the plain output path and no rename was made; N >= 2
\* leaves part k at the path suffixed -part{k} for every k, nothing at the
\* plain path, and exactly one rename was made.
PartNamesFor(ids) ==
  (PackerCompleted /\ AllPartsWritten /\ modIdentifier \in ids) =>
    LET n == Len(Parts)
        renames == {i \in 1..Len(log) : log[i].op = "renameSync"}
    IN IF n = 1
         THEN /\ WrittenPaks = {modPakFile}
              /\ Holds(modPakFile, Parts[1])
              /\ renames = {}
         ELSE /\ WrittenPaks = {SuffixedPath(k) : k \in 0..(n - 1)}
              /\ \A k \in 0..(n - 1) : Holds(SuffixedPath(k), Parts[k + 1])
              /\ Cardinality(renames) = 1

\* C4: for every mod identifier, when compressToPak has returned with N
\* parts: N = 1 leaves the only archive at the plain output path; N >= 2
\* leaves part k at the output path with -part{k} before its extension for
\* every k in 0..N-1 and nothing at the plain path; the rename to -part0 is
\* made if and only if N >= 2.
C4_PartNames == PartNamesFor({<<"nomusic">>, <<"no", ".pak", "music">>})

\* The naming of the parts for a mod identifier without ".pak" in it, when
\* compressToPak returns.
PartNamesPlainIdentifier == PartNamesFor({<<"nomusic">>})

\* Below a checkout directory with ".pak" in its name the rename of the
\* first part fails: compressToPak never returns with more than one part.
RenameFailsBelowPakDirectory ==
  (\E i \in 1..Len(rootDirectory) : rootDirectory[i] = ".pak")
    => /\ ~\E i \in 1..Len(log) : log[i].op = "renameSync"
       /\ Len(ZipEvents) <= 1 \/ ~PackerCompleted

(* C5 *)

RECURSIVE SumSeq(_)
SumSeq(sizes) == IF sizes = <<>> THEN 0 ELSE Head(sizes) + SumSeq(Tail(sizes))

\* C5: the packer is greedy with an inclusive boundary.  A part that is
\* followed by another one could not take the first file of the following
\* part: its size plus that file's size is larger than maxSizeBytes.  Files
\* of a total size of at most maxSizeBytes are packed as exactly one part.
\* Sizes <<1, 1, 1>> with the limit 2 are packed as <<f1, f2>> and <<f3>>.
C5_GreedyInclusiveBoundary ==
  InPacker =>
    /\ \A k \in 1..(Len(Parts) - 1) :
         Parts[k + 1] # <<>>
           => PartSize(Parts[k]) + SizeOf(Head(Parts[k + 1])) > maxSizeBytes
    /\ SumSeq(FileSizeSeq) <= maxSizeBytes
         => /\ Len(Parts) <= 1
            /\ pc = "execZip" => filesToPack = RelFileList
            /\ PackerCompleted => Parts = <<RelFileList>>
    /\ (FileSizeSeq = <<1, 1, 1>> /\ PackerCompleted)
         => Parts = << <<RelFileList[1], RelFileList[2]>>, <<RelFileList[3]>> >>

\* Three files of size 1 have been packed under the limit 2.
C5_Witness ==
  /\ PackerCompleted
  /\ FileSizeSeq = <<1, 1, 1>>
  /\ Len(Parts) = 2

(* C6 *)

\* C6: when the enumeration of the Data directory has found no file, the
\* process has exited with code 1, no tool was invoked and no archive was
\* created: the archives are those copied from the source tree.
C6_NoFilesFailsBeforeAnyTool ==
  (HasEvent("cpSync", temporaryBuildDirectory) /\ pc # "compressToPak" /\ fileList = <<>>)
  => /\ pc = "exited"
     /\ exitCode = 1
     /\ ToolEvents = {}
     /\ paks = CopiedPaks(stagingData)

\* The build has ended on a Data directory that holds an empty directory
\* and a pak, and nothing else.
C6_Witness ==
  /\ pc = "exited"
  /\ error = "No files found to pack"
  /\ Len(stagingData) = 2
  /\ \E i \in 1..2 : stagingData[i].isDirectory
  /\ \E i \in 1..2 : ~stagingData[i].isDirectory

(* C7 *)

\* The first argument that starts with flag and "=" gives a value that is
\* not one of allowed: the text after the first "=" is not empty and is not
\* in the set.
FlagValueOutside(flag, allowed) ==
  /\ \E i \in 1..Len(args) : StartsWithFlag(args[i], flag)
  /\ LET arg == args[CHOOSE i \in 1..Len(args) :
                       /\ StartsWithFlag(args[i], flag)
                       /\ \A k \in 1..(i - 1) : ~StartsWithFlag(args[k], flag)]
     IN Tail(arg) # <<"">> /\ ~(Len(arg) = 2 /\ arg[2] \in allowed)

\* The values the script reads from the flags and the environment, or the
\* manifest, are in error.
ErrorInParsedConfiguration ==
  \/ environment \notin {"prod", "dev"}
  \/ version \notin {"main", "lorem-ipsum"}
  \/ ~manifestExists
  \/ manifestContent.modid = <<>>
  \/ manifestContent.version = <<>>
  \/ manifestContent.name = <<>>

\* The flags as given or the manifest are in error (and --help is not
\* given).
ConfigurationError ==
  /\ ~isHelpRequested
  /\ \/ FlagValueOutside("--env", {"prod", "dev"})
     \/ FlagValueOutside("--version", {"main", "lorem-ipsum"})
     \/ ErrorInParsedConfiguration

\* The build has not left the validation; when it has exited the code is 1;
\* no file-system call and no tool call was made, and the staging directory
\* and the archives are as they were.
EndsBeforeMutation ==
  /\ pc \in {"checkHelp", "checkEnvironment", "checkVersion", "checkManifest",
             "readManifest", "exited"}
  /\ pc = "exited" => exitCode = 1
  /\ log = <<>>
  /\ paks = NoPaks
  /\ stagingData = (IF stagingExists THEN StaleData ELSE <<>>)

\* C7: with a configuration error (an --env or --version value outside the
\* allowed sets, no manifest, or a manifest without modid, version or name)
\* the build ends with code 1 before any file-system call or tool call.
C7_ConfigurationErrorBeforeMutation == ConfigurationError => EndsBeforeMutation

\* When the values the script has read are in error, the build ends with
\* code 1 before any file-system call or tool call.
ParsedConfigurationErrorBeforeMutation ==
  (~isHelpRequested /\ ErrorInParsedConfiguration) => EndsBeforeMutation

(* C8 *)

\* C8: no file whose path ends in .pak, in any case, is in the file list
\* or in a part given to the zip tool.
C8_NoPakIsPacked ==
  /\ \A i \in 1..Len(fileList) : fileList[i][Len(fileList[i])] \notin PakSpellings
  /\ \A i \in 1..Len(filesToPack) : filesToPack[i][Len(filesToPack[i])] \notin PakSpellings
  /\ \A k \in 1..Len(Parts) : \A i \in 1..Len(Parts[k]) :
       Parts[k][i][Len(Parts[k][i])] \notin PakSpellings

\* Two parts have been written into a Data directory that held a pak of an
\* earlier build at the output path.
C8_Witness ==
  /\ InPacker
  /\ Len(Parts) >= 2
  /\ modPakFile \in DOMAIN CopiedPaks(stagingData)
  /\ \E p \in DOMAIN paks : p # modPakFile

(* C9 *)

\* C9: a step in which the zip tool fails ends the process with code 1 and
\* leaves the staging directory and the archives as they are; when the tool
\* has returned and the output path does not exist, the next step ends the
\* process with code 1 with no call made in between; and nothing runs once
\* the process has ended: no further part, no rename, no cleanup, no
\* bundler.
C9_ZipFailureAbortsBuild ==
  [][/\ (pc = "execZip" /\ log'[Len(log')].result = "failed")
          => (pc' = "exited" /\ exitCode' = 1 /\ UNCHANGED diskVars)
     /\ (pc = "checkPak" /\ pakPath \notin DOMAIN paks)
          => (pc' = "exited" /\ exitCode' = 1 /\ UNCHANGED <<log, diskVars>>)
     /\ pc # "exited"]_vars

\* The build has exited because the second part was not written, with
\* files left to pack and Data/Scripts still in place.
C9_Witness ==
  /\ pc = "exited"
  /\ error = "Failed to create pak"
  /\ Len(ZipEvents) = 2
  /\ ZipEvents[2].result = "no output"
  /\ fileIdx < Len(fileList)
  /\ stagingExists
  /\ HasEntry(stagingData, "Scripts")
  /\ ~HasEvent("rmSync", scriptsDirectory)

(* C10 *)

\* C10: when the packer enumerates the staging Data directory, Scripts and
\* Libs are not there.
C10_RemovedBeforePacking ==
  pc = "compressToPak"
    => ~HasEntry(stagingData, "Scripts") /\ ~HasEntry(stagingData, "Libs")

\* The files below Data/Scripts and Data/Libs that are no paks.
NonProductionFiles ==
  {f.path : f \in {g \in StatTable(dataDirectory, stagingData) :
                     /\ relative(dataDirectory, g.path)[1] \in {"Scripts", "Libs"}
                     /\ ~IsPak(g.path)}}

\* C10 as amended: Scripts and Libs are removed after the packing and
\* before the bundling.  While the packer runs no removal of them was made
\* and every file below them that is no pak is in the enumerated file list;
\* when the packer has returned every such file is in a part given to the
\* zip tool; when packMod runs the two directories are not in the staging
\* Data directory.
C10_RemovedAfterPackingBeforeBundling ==
  /\ InPacker
       => /\ ~HasEvent("rmSync", scriptsDirectory)
          /\ ~HasEvent("rmSync", libsDirectory)
          /\ \A f \in NonProductionFiles : \E i \in 1..Len(fileList) : fileList[i] = f
  /\ PackerCompleted
       => \A f \in NonProductionFiles :
            \E k \in 1..Len(Parts) : \E i \in 1..Len(Parts[k]) :
              Parts[k][i] = relative(dataDirectory, f)
  /\ pc \in {"packMod", "sevenZip", "removeStaging"}
       => ~HasEntry(stagingData, "Scripts") /\ ~HasEntry(stagingData, "Libs")

\* The bundler is about to run, a file of Data/Scripts is in a pak, and
\* both directories were removed.
C10_Witness ==
  /\ pc = "sevenZip"
  /\ HasEvent("rmSync", scriptsDirectory)
  /\ HasEvent("rmSync", libsDirectory)
  /\ \E k \in 1..Len(Parts) : \E i \in 1..Len(Parts[k]) : Parts[k][i][1] = "Scripts"

====
